---------------------------- MODULE Spec2Model ----------------------------
(***************************************************************************)
(* The food-wastage dashboard (streamlit_app.py): a Streamlit script that  *)
(* is re-run from top to bottom on every UI event, runs the statements of  *)
(* a fixed catalog against a SQLite store and renders their results.       *)
(*                                                                         *)
(* Text that the program folds or trims (provider cities, claim statuses,  *)
(* the typed city) is a sequence of characters, one string per character;  *)
(* the two characters outside ASCII are written "U+00C9" (capital E with   *)
(* acute) and "U+00E9" (small e with acute).  SQL NULL is the empty tuple  *)
(* and a non-null number n is <<n>>.  Percentages are kept in hundredths   *)
(* (66.67 is 6667), so that ROUND(x, 2) is exact.                          *)
(***************************************************************************)
EXTENDS Integers, Sequences, FiniteSets

VARIABLES
    db,          \* the store behind the cached connection: the four tables
    selection,   \* the sidebar selectbox
    cityText,    \* the text of the city input of the view on screen
    pressed,     \* whether the last script run was started by a button press
    display,     \* what the last script run put on the page, in order
    executed,    \* the statements the last script run handed to run_sql
    crashed      \* whether an exception escaped the last script run

vars == <<db, selection, cityText, pressed, display, executed, crashed>>

---------------------------------------------------------------------------
(* Bounds of the model.                                                    *)

MaxProviderRows == 2
MaxReceiverRows == 1
MaxListingRows == 2
MaxClaimRows == 3
MaxClaims == 31

---------------------------------------------------------------------------
(* Text.                                                                   *)

NULL == <<>>

UpperAscii == <<"A","B","C","D","E","F","G","H","I","J","K","L","M",
                "N","O","P","Q","R","S","T","U","V","W","X","Y","Z">>
LowerAscii == <<"a","b","c","d","e","f","g","h","i","j","k","l","m",
                "n","o","p","q","r","s","t","u","v","w","x","y","z">>

\* The lower-case letter of each upper-case ASCII letter.
LowerOf ==
    [c \in {UpperAscii[i] : i \in DOMAIN UpperAscii} |->
        LowerAscii[CHOOSE i \in DOMAIN UpperAscii : UpperAscii[i] = c]]

\* SQLite's built-in lower(): the ASCII letters A-Z are folded, every other
\* character is left as it is.
LowerChar(c) == IF c \in DOMAIN LowerOf THEN LowerOf[c] ELSE c

Lower(s) == [i \in DOMAIN s |-> LowerChar(s[i])]

\* Python's str.strip(): leading and trailing whitespace is removed.
IsSpace(c) == c \in {" ", "\t", "\n"}

RECURSIVE LStrip(_)
LStrip(s) ==
    IF s # <<>> /\ IsSpace(Head(s)) THEN LStrip(Tail(s)) ELSE s

RECURSIVE RStrip(_)
RStrip(s) ==
    IF s # <<>> /\ IsSpace(s[Len(s)])
    THEN RStrip(SubSeq(s, 1, Len(s) - 1))
    ELSE s

Strip(s) == RStrip(LStrip(s))

\* The words of the datasets below.
CityJaipur == <<"J","a","i","p","u","r">>
CityDelhi == <<"D","e","l","h","i">>
CityErd == <<"U+00C9","r","d">>
StCompleted == <<"C","o","m","p","l","e","t","e","d">>
StCompletedLc == <<"c","o","m","p","l","e","t","e","d">>
StPending == <<"P","e","n","d","i","n","g">>
StAnnuleLc == <<"a","n","n","u","l","U+00E9">>
StAnnuleUc == <<"A","N","N","U","L","U+00C9">>

---------------------------------------------------------------------------
(* The store: four tables.  A table that exists has a set of columns and a *)
(* set of rows; a table that was never created has exists = FALSE.         *)

TableNames == {"providers", "receivers", "food_listings", "claims"}

ProviderCols == {"Provider_ID", "Name", "Address", "City", "Contact"}
ReceiverCols == {"Receiver_ID", "Name", "City"}
ListingCols == {"Food_ID", "Provider_ID", "Food_Name", "Provider_Type",
                "Location", "Food_Type", "Meal_Type", "Quantity"}
ClaimCols == {"Claim_ID", "Food_ID", "Receiver_ID", "Status"}

Table(cols, rows) == [exists |-> TRUE, cols |-> cols, rows |-> rows]
NoTable == [exists |-> FALSE, cols |-> {}, rows |-> {}]

ProviderPool ==
    { [Provider_ID |-> 1, Name |-> "Asha Foods", Address |-> "MI Road",
       City |-> CityJaipur, Contact |-> "0141-1"],
      [Provider_ID |-> 2, Name |-> "Delhi Diner", Address |-> "CP",
       City |-> CityDelhi, Contact |-> "011-2"],
      [Provider_ID |-> 3, Name |-> "Erd Etterem", Address |-> "Fo ut",
       City |-> CityErd, Contact |-> "023-3"] }

ReceiverPool ==
    { [Receiver_ID |-> 1, Name |-> "Ravi", City |-> "Jaipur"],
      [Receiver_ID |-> 2, Name |-> "Sita", City |-> "Delhi"] }

ListingPool ==
    { [Food_ID |-> 1, Provider_ID |-> 1, Food_Name |-> "Rice",
       Provider_Type |-> "Restaurant", Location |-> "Jaipur",
       Food_Type |-> "Vegetarian", Meal_Type |-> "Lunch", Quantity |-> <<5>>],
      [Food_ID |-> 2, Provider_ID |-> 2, Food_Name |-> "Bread",
       Provider_Type |-> "Supermarket", Location |-> "Delhi",
       Food_Type |-> "Vegan", Meal_Type |-> "Dinner", Quantity |-> <<7>>],
      [Food_ID |-> 3, Provider_ID |-> 1, Food_Name |-> "Soup",
       Provider_Type |-> "Restaurant", Location |-> "Delhi",
       Food_Type |-> "Vegetarian", Meal_Type |-> "Dinner", Quantity |-> NULL] }

ClaimPool ==
    { [Claim_ID |-> 1, Food_ID |-> 1, Receiver_ID |-> 1, Status |-> StCompleted],
      [Claim_ID |-> 2, Food_ID |-> 2, Receiver_ID |-> 1, Status |-> StCompletedLc],
      [Claim_ID |-> 3, Food_ID |-> 1, Receiver_ID |-> 2, Status |-> StPending],
      [Claim_ID |-> 4, Food_ID |-> 2, Receiver_ID |-> 2, Status |-> StAnnuleLc],
      [Claim_ID |-> 5, Food_ID |-> 3, Receiver_ID |-> 1, Status |-> StAnnuleUc] }

AtMost(pool, n) == {S \in SUBSET pool : Cardinality(S) <= n}

\* The tables a store may hold: a table either was never created or holds a
\* few rows of its pool; food_listings may also lack its Quantity column.
ProviderTables ==
    {NoTable} \cup {Table(ProviderCols, R) : R \in AtMost(ProviderPool, MaxProviderRows)}
ReceiverTables ==
    {NoTable} \cup {Table(ReceiverCols, R) : R \in AtMost(ReceiverPool, MaxReceiverRows)}
ListingTables ==
    {NoTable, Table(ListingCols \ {"Quantity"}, {})}
        \cup {Table(ListingCols, R) : R \in AtMost(ListingPool, MaxListingRows)}
ClaimTables ==
    {NoTable} \cup {Table(ClaimCols, R) : R \in AtMost(ClaimPool, MaxClaimRows)}

\* A store with every table filled.
BaseStore ==
    [providers |-> Table(ProviderCols, ProviderPool),
     receivers |-> Table(ReceiverCols, ReceiverPool),
     food_listings |-> Table(ListingCols, ListingPool),
     claims |-> Table(ClaimCols, {c \in ClaimPool : c.Claim_ID <= 3})]

\* Of a table: never created, empty, or as in BaseStore.
Coarse(t) == {NoTable, Table(BaseStore[t].cols, {}), BaseStore[t]}

\* The stores the dashboard is started on: every combination of coarse
\* tables, and BaseStore with any one table replaced by any table.
Stores ==
    [providers : Coarse("providers"), receivers : Coarse("receivers"),
     food_listings : Coarse("food_listings"), claims : Coarse("claims")]
    \cup {[BaseStore EXCEPT !.providers = T] : T \in ProviderTables}
    \cup {[BaseStore EXCEPT !.receivers = T] : T \in ReceiverTables}
    \cup {[BaseStore EXCEPT !.food_listings = T] : T \in ListingTables}
    \cup {[BaseStore EXCEPT !.claims = T] : T \in ClaimTables}

---------------------------------------------------------------------------
(* The statements: QUERIES (sections 1-3, 5-15) and the city query (4).    *)

QueryIds == 1..15
CityQuery == 4
Catalog == QueryIds \ {CityQuery}

\* The tables and columns each statement names.
Refs(q) ==
    CASE q = 1 -> {<<"providers", "City">>}
      [] q = 2 -> {<<"receivers", "City">>}
      [] q = 3 -> {<<"food_listings", "Provider_Type">>, <<"food_listings", "Quantity">>}
      [] q = 4 -> {<<"providers", c>> : c \in ProviderCols}
      [] q = 5 -> {<<"claims", "Claim_ID">>, <<"claims", "Receiver_ID">>,
                   <<"receivers", "Receiver_ID">>, <<"receivers", "Name">>}
      [] q = 6 -> {<<"food_listings", "Quantity">>}
      [] q = 7 -> {<<"food_listings", "Location">>}
      [] q = 8 -> {<<"food_listings", "Food_Type">>, <<"food_listings", "Quantity">>}
      [] q = 9 -> {<<"claims", "Claim_ID">>, <<"claims", "Food_ID">>,
                   <<"food_listings", "Food_ID">>, <<"food_listings", "Food_Name">>}
      [] q = 10 -> {<<"claims", "Claim_ID">>, <<"claims", "Food_ID">>, <<"claims", "Status">>,
                    <<"food_listings", "Food_ID">>, <<"food_listings", "Provider_ID">>,
                    <<"providers", "Provider_ID">>, <<"providers", "Name">>}
      [] q = 11 -> {<<"claims", "Status">>}
      [] q = 12 -> {<<"claims", "Food_ID">>, <<"claims", "Receiver_ID">>,
                    <<"food_listings", "Food_ID">>, <<"food_listings", "Quantity">>,
                    <<"receivers", "Receiver_ID">>, <<"receivers", "Name">>}
      [] q = 13 -> {<<"claims", "Claim_ID">>, <<"claims", "Food_ID">>,
                    <<"food_listings", "Food_ID">>, <<"food_listings", "Meal_Type">>}
      [] q = 14 -> {<<"food_listings", "Provider_ID">>, <<"food_listings", "Quantity">>,
                    <<"providers", "Provider_ID">>, <<"providers", "Name">>}
      [] q = 15 -> {<<"claims", "Food_ID">>, <<"claims", "Receiver_ID">>, <<"claims", "Status">>,
                    <<"food_listings", "Food_ID">>, <<"food_listings", "Quantity">>,
                    <<"receivers", "Receiver_ID">>, <<"receivers", "City">>}

\* sqlite3 raises ("no such table", "no such column") exactly when the
\* statement names a table or a column the store does not have.
Fails(store, q) ==
    \E r \in Refs(q) : ~store[r[1]].exists \/ r[2] \notin store[r[1]].cols

Min(a, b) == IF a <= b THEN a ELSE b

\* The element of a one-element set.  { e(x) : x \in {v} } computes v once
\* and gives e(v) under that name.
Pick(S) == CHOOSE x \in S : TRUE

\* The joins of the statements.
ClaimListing(store) ==
    {<<c, f>> \in store.claims.rows \X store.food_listings.rows : c.Food_ID = f.Food_ID}
ClaimReceiver(store) ==
    {<<c, r>> \in store.claims.rows \X store.receivers.rows : c.Receiver_ID = r.Receiver_ID}
ListingProvider(store) ==
    {<<f, p>> \in store.food_listings.rows \X store.providers.rows : f.Provider_ID = p.Provider_ID}

\* WHERE LOWER(c.Status) = 'completed'
IsCompleted(c) == Lower(c.Status) = StCompletedLc

\* The number of rows of a statement other than 4, 6 and 11: the number of
\* its groups, cut by its LIMIT.
GroupCount(store, q) ==
    CASE q = 1 -> Cardinality({p.City : p \in store.providers.rows})
      [] q = 2 -> Cardinality({r.City : r \in store.receivers.rows})
      [] q = 3 -> Cardinality({f.Provider_Type : f \in store.food_listings.rows})
      [] q = 5 -> Min(5, Cardinality({x[2].Name : x \in ClaimReceiver(store)}))
      [] q = 7 -> Min(1, Cardinality({f.Location : f \in store.food_listings.rows}))
      [] q = 8 -> Cardinality({f.Food_Type : f \in store.food_listings.rows})
      [] q = 9 -> Cardinality({x[2].Food_Name : x \in ClaimListing(store)})
      [] q = 10 -> Min(1, Cardinality(
                     {y[2].Name : y \in {y \in ListingProvider(store) :
                        \E x \in ClaimListing(store) : x[2] = y[1] /\ IsCompleted(x[1])}}))
      [] q = 12 -> Cardinality(
                     {y[2].Name : y \in {y \in ClaimReceiver(store) :
                        \E x \in ClaimListing(store) : x[1] = y[1]}})
      [] q = 13 -> Min(1, Cardinality({x[2].Meal_Type : x \in ClaimListing(store)}))
      [] q = 14 -> Cardinality({y[2].Name : y \in ListingProvider(store)})
      [] q = 15 -> Min(1, Cardinality(
                     {y[2].City : y \in {y \in ClaimReceiver(store) :
                        IsCompleted(y[1]) /\ \E x \in ClaimListing(store) : x[1] = y[1]}}))

\* Query 4: WHERE LOWER(City) = LOWER(?), the five provider columns.
Query4Rows(store, param) ==
    { <<p.Provider_ID, p.Name, p.Address, p.City, p.Contact>> :
        p \in {p \in store.providers.rows : Lower(p.City) = Lower(param)} }

RECURSIVE SumOf(_)
SumOf(S) ==
    IF S = {} THEN 0
    ELSE LET x == CHOOSE x \in S : TRUE IN x.Quantity[1] + SumOf(S \ {x})

\* Query 6: SUM(CAST(Quantity AS INTEGER)) over all listings, one row; SUM of
\* no non-null value is NULL.
Query6Rows(store) ==
    LET known == {f \in store.food_listings.rows : f.Quantity # NULL}
    IN  {<< IF known = {} THEN NULL ELSE <<SumOf(known)>> >>}

\* The share cut after two decimals instead of rounded.
RoundPctTruncate(n, d) ==
    IF d = 0 THEN NULL ELSE <<(n * 10000) \div d>>

\* ROUND(n * 100.0 / d, 2) in hundredths, half away from zero; a division by
\* zero is NULL in SQLite.
RoundPct(n, d) ==
    IF d = 0 THEN NULL ELSE <<(2 * n * 10000 + d) \div (2 * d)>>

\* Query 11: one row per LOWER(Status): the status, COUNT(*) and the share
\* of the status in all claims.  L pairs each claim with its lowered status.
Query11Rows(store) ==
    Pick({ { <<k, Cardinality({x \in L : x[2] = k}),
               RoundPct(Cardinality({x \in L : x[2] = k}), Cardinality(L))>> :
             k \in {x[2] : x \in L} } :
           L \in { {<<c.Claim_ID, Lower(c.Status)>> : c \in store.claims.rows} } })

\* A DataFrame: its number of columns and of rows, and, for the statements
\* whose values the page or a claim reads (4, 6, 11), its rows.
Frame(ncols, nrows, rows) == [ncols |-> ncols, nrows |-> nrows, rows |-> rows]
EmptyFrame == Frame(0, 0, {})

ResultOf(store, q, param) ==
    CASE q = 4 -> LET R == Query4Rows(store, param) IN Frame(5, Cardinality(R), R)
      [] q = 6 -> Frame(1, 1, Query6Rows(store))
      [] q = 11 -> LET R == Query11Rows(store) IN Frame(3, Cardinality(R), R)
      [] OTHER -> Frame(2, GroupCount(store, q), {})

\* A statement that deletes the claims it has read.
StoreAfterDelete(store, q) ==
    IF "claims" \in {r[1] : r \in Refs(q)}
    THEN [store EXCEPT !.claims.rows = {}]
    ELSE store

\* What executing a statement leaves of the store: every statement is a SELECT.
StoreAfter(store, q) == store

---------------------------------------------------------------------------
(* run_sql and the page.                                                   *)

\* run_sql with the except clause left out: the error leaves the function.
RunSqlNoCatch(store, q, param) ==
    IF Fails(store, q)
    THEN [df |-> EmptyFrame, error |-> FALSE, raised |-> TRUE]
    ELSE [df |-> ResultOf(store, q, param), error |-> FALSE, raised |-> FALSE]

\* run_sql that also calls st.error when the statement returned no row.
RunSqlErrorOnEmpty(store, q, param) ==
    IF Fails(store, q)
    THEN [df |-> EmptyFrame, error |-> TRUE, raised |-> FALSE]
    ELSE LET df == ResultOf(store, q, param)
         IN  [df |-> df, error |-> (df.nrows = 0), raised |-> FALSE]

\* run_sql: pd.read_sql_query inside try; on any Exception st.error is called
\* and an empty DataFrame is returned.  The numeric coercion that follows
\* changes column types only: numbers stay, NULL stays null (None or NaN).
RunSql(store, q, param) ==
    IF Fails(store, q)
    THEN [df |-> EmptyFrame, error |-> TRUE, raised |-> FALSE]
    ELSE [df |-> ResultOf(store, q, param), error |-> FALSE, raised |-> FALSE]

\* One element put on the page by section sec (0: outside the sections).
Item(sec, kind, text, df, val) ==
    [sec |-> sec, kind |-> kind, text |-> text, df |-> df, val |-> val]

TextItem(sec, kind, text) == Item(sec, kind, text, EmptyFrame, NULL)

NoResults == "No results to display."
TypeACity == "Type a city above to view provider contacts for Query 4."
PleaseType == "Please type a city name then press Run."
SqlError == "SQL execution error"

\* df.empty
IsEmpty(df) == df.nrows = 0 \/ df.ncols = 0

\* show_df_and_chart: the info line for an empty frame; else the table and,
\* for a frame of exactly two columns, a bar chart.
ShowDfAndChart(sec, df) ==
    IF IsEmpty(df)
    THEN <<TextItem(sec, "info", NoResults)>>
    ELSE <<Item(sec, "dataframe", "", df, NULL)>>
         \o (IF df.ncols = 2 THEN <<Item(sec, "bar", "", df, NULL)>> ELSE <<>>)

\* The guard without strip(): only the empty text counts as blank.
CityIsBlankNoStrip(city) == city = <<>>

\* city.strip() == ""
CityIsBlank(city) == Strip(city) = <<>>

\* A call of run_sql from section sec: what it shows (st.error), what it
\* returns, and the entry of the run's log.
Call(store, sec, q, param) ==
    Pick({ [items |-> IF r.error THEN <<TextItem(sec, "error", SqlError)>> ELSE <<>>,
            log |-> <<[sec |-> sec, q |-> q, param |-> param, df |-> r.df]>>,
            df |-> r.df,
            raised |-> r.raised] : r \in {RunSql(store, q, param)} })

\* The metric of section 6: int(df.iloc[0, 0]) if pd.notna(...) else 0.
MetricValue(df) ==
    LET cell == (CHOOSE row \in df.rows : TRUE)[1]
    IN  IF cell # NULL THEN cell ELSE <<0>>

\* What follows the run_sql call of a section of the all-queries view.
Present(sec, df) ==
    CASE sec = 6 ->
            IF ~IsEmpty(df)
            THEN <<Item(sec, "metric", "Total Quantity Available", EmptyFrame, MetricValue(df))>>
            ELSE <<>>
      [] sec = 11 ->
            IF ~IsEmpty(df)
            THEN <<Item(sec, "dataframe", "", df, NULL), Item(sec, "pie", "", df, NULL)>>
            ELSE <<>>
      [] OTHER -> ShowDfAndChart(sec, df)

\* One section of the all-queries view: its subheader, its statement, its
\* presentation.  Section 4 runs the city query only for a non-blank city.
Section(store, city, sec) ==
    IF sec = CityQuery /\ CityIsBlank(city)
    THEN [items |-> <<TextItem(sec, "subheader", ""), TextItem(sec, "info", TypeACity)>>,
          log |-> <<>>, raised |-> FALSE]
    ELSE Pick({ [items |-> <<TextItem(sec, "subheader", "")>> \o c.items
                           \o (IF c.raised THEN <<>> ELSE Present(sec, c.df)),
                 log |-> c.log, raised |-> c.raised] :
                c \in {Call(store, sec, sec, IF sec = CityQuery THEN Strip(city) ELSE NULL)} })

LastSection == 15

\* The least section of S, or the last section of the view when S is empty.
FirstOf(S) ==
    IF S = {} THEN LastSection ELSE CHOOSE n \in S : \A m \in S : n <= m

\* A run that gives up at the first section whose statement fails.
StopAtFirstError(store, city, sec) ==
    FirstOf({n \in sec..LastSection :
               \/ Section(store, city, n).raised
               \/ \E i \in DOMAIN Section(store, city, n).items :
                     Section(store, city, n).items[i].kind = "error"})

\* The section at which a run of the all-queries view that is at section sec
\* ends: the sections follow each other in the script, and only an exception
\* that leaves a section ends the run before the last one.
StopAt(store, city, sec) ==
    FirstOf({n \in sec..LastSection : Section(store, city, n).raised})

RECURSIVE ItemsOf(_, _, _, _)
ItemsOf(store, city, sec, last) ==
    IF sec > last THEN <<>>
    ELSE Section(store, city, sec).items \o ItemsOf(store, city, sec + 1, last)

RECURSIVE LogOf(_, _, _, _)
LogOf(store, city, sec, last) ==
    IF sec > last THEN <<>>
    ELSE Section(store, city, sec).log \o LogOf(store, city, sec + 1, last)

StartPage(title) ==
    [items |-> <<TextItem(0, "header", title)>>, log |-> <<>>, raised |-> FALSE]

AddSection(page, s) ==
    [items |-> page.items \o s.items, log |-> page.log \o s.log, raised |-> s.raised]

\* The all-queries view: sections 1 to 15 in the order of the script.
AllView(store, city) ==
    Pick({ [items |-> StartPage("All queries output").items \o ItemsOf(store, city, 1, last),
            log |-> LogOf(store, city, 1, last),
            raised |-> Section(store, city, last).raised] :
           last \in {StopAt(store, city, 1)} })

\* A run_sql call followed by show_df_and_chart (the views of one statement).
CallAndShow(store, q, param) ==
    Pick({ [items |-> c.items \o (IF c.raised THEN <<>> ELSE ShowDfAndChart(q, c.df)),
            log |-> c.log, raised |-> c.raised] : c \in {Call(store, q, q, param)} })

\* The interactive Query 4 view.
CityView(store, city, button) ==
    IF ~button THEN StartPage("Query 4")
    ELSE IF CityIsBlank(city)
    THEN AddSection(StartPage("Query 4"),
                    [items |-> <<TextItem(CityQuery, "warning", PleaseType)>>,
                     log |-> <<>>, raised |-> FALSE])
    ELSE AddSection(StartPage("Query 4"), CallAndShow(store, CityQuery, Strip(city)))

\* The single-query view of statement q.
SingleView(store, q, button) ==
    IF ~button THEN StartPage("Query")
    ELSE AddSection(StartPage("Query"), CallAndShow(store, q, NULL))

\* The sidebar's options.
AllOption == [view |-> "all", q |-> 0]
CityOption == [view |-> "city", q |-> CityQuery]
Options == {AllOption, CityOption} \cup {[view |-> "single", q |-> q] : q \in Catalog}

\* The view the selectbox names.
View(store, sel, city, button) ==
    CASE sel.view = "all" -> AllView(store, city)
      [] sel.view = "city" -> CityView(store, city, button)
      [] OTHER -> SingleView(store, sel.q, button)

\* One run of the script, top to bottom; the caption closes a run that no
\* exception ended.
Script(store, sel, city, button) ==
    Pick({ IF page.raised THEN page
           ELSE [page EXCEPT !.items = @ \o <<TextItem(0, "caption", "")>>] :
           page \in {View(store, sel, city, button)} })

\* The store after the statements log[i], log[i+1], ... of a run, in order.
RECURSIVE StoreAfterFrom(_, _, _)
StoreAfterFrom(store, log, i) ==
    IF i > Len(log) THEN store
    ELSE Pick({ StoreAfterFrom(next, log, i + 1) :
                next \in {IF Fails(store, log[i].q) THEN store
                          ELSE StoreAfter(store, log[i].q)} })

---------------------------------------------------------------------------
(* The UI events; each one re-runs the script.                             *)

CityInputs ==
    { <<>>, <<" ">>, Lower(CityJaipur), <<" ">> \o CityJaipur \o <<" ">>,
      <<"U+00E9","r","d">> }

Rerun(sel, city, button) ==
    \E page \in {Script(db, sel, city, button)} :
        /\ selection' = sel
        /\ cityText' = city
        /\ pressed' = button
        /\ display' = page.items
        /\ executed' = page.log
        /\ crashed' = page.raised
        /\ db' = StoreAfterFrom(db, page.log, 1)

\* The user picks another option of the selectbox; the city input of the new
\* view starts empty.
SelectView(sel) ==
    /\ sel # selection
    /\ Rerun(sel, <<>>, FALSE)

\* The user types a city into the text input of the view on screen.
TypeCity(t) ==
    /\ selection.view \in {"all", "city"}
    /\ t # cityText
    /\ Rerun(selection, t, FALSE)

\* The user presses the Run button of the view on screen.
PressRun ==
    /\ selection.view \in {"city", "single"}
    /\ Rerun(selection, cityText, TRUE)

\* The first run: the selectbox shows its first option.
Init ==
    /\ db \in Stores
    /\ selection = AllOption
    /\ cityText = <<>>
    /\ pressed = FALSE
    /\ \E page \in {Script(db, AllOption, <<>>, FALSE)} :
          /\ display = page.items
          /\ executed = page.log
          /\ crashed = page.raised

Next ==
    \/ \E sel \in Options : SelectView(sel)
    \/ \E t \in CityInputs : TypeCity(t)
    \/ PressRun

Spec == Init /\ [][Next]_vars

---------------------------------------------------------------------------
(* The percentage statement on larger claims tables: every claims table of *)
(* at most MaxClaims rows, up to the names of the statuses and the order   *)
(* of the rows.  A table is given by the number of claims of each status,  *)
(* largest first; the claims of a status alternate between its lower-case  *)
(* and its capitalised spelling.                                           *)

RECURSIVE Partitions(_, _)
Partitions(n, m) ==
    IF n = 0 THEN {<<>>}
    ELSE UNION { {<<k>> \o p : p \in Partitions(n - k, k)} : k \in 1..Min(n, m) }

StatusWord(g, capital) ==
    << IF capital THEN UpperAscii[((g - 1) \div 26) + 1] ELSE LowerAscii[((g - 1) \div 26) + 1],
       LowerAscii[((g - 1) % 26) + 1] >>

ClaimsOf(p) ==
    { [Claim_ID |-> 100 * x[1] + x[2], Food_ID |-> 1, Receiver_ID |-> 1,
       Status |-> StatusWord(x[1], x[2] % 2 = 0)] :
        x \in {y \in (DOMAIN p) \X (1..MaxClaims) : y[2] <= p[y[1]]} }

\* The other three tables exist and are empty.
PctStores ==
    { [providers |-> Table(ProviderCols, {}), receivers |-> Table(ReceiverCols, {}),
       food_listings |-> Table(ListingCols, {}),
       claims |-> Table(ClaimCols, ClaimsOf(p))] :
        p \in UNION {Partitions(n, n) : n \in 0..MaxClaims} }

InitPct ==
    /\ db \in PctStores
    /\ selection = AllOption
    /\ cityText = <<>>
    /\ pressed = FALSE
    /\ \E page \in {Script(db, AllOption, <<>>, FALSE)} :
          /\ display = page.items
          /\ executed = page.log
          /\ crashed = page.raised

NextPct ==
    \/ SelectView([view |-> "single", q |-> 11])
    \/ PressRun

SpecPct == InitPct /\ [][NextPct]_vars


---------------------------------------------------------------------------
(* Properties.                                                             *)

Log == {executed[i] : i \in DOMAIN executed}

\* Section sec of the page holds an element of this kind.
Shown(sec, kind) ==
    \E i \in DOMAIN display : display[i].sec = sec /\ display[i].kind = kind

ShownText(sec, kind, text) ==
    \E i \in DOMAIN display :
        display[i].sec = sec /\ display[i].kind = kind /\ display[i].text = text

\* Section sec shows a table, a number or a chart.
ShowsData(sec) ==
    \E k \in {"dataframe", "metric", "bar", "pie"} : Shown(sec, k)

\* The run went through to the caption that ends the script.
ReachedEnd == display # <<>> /\ display[Len(display)].kind = "caption"

\* Letter case as the claims mean it: the ASCII letters and the accented E.
Fold(s) ==
    [i \in DOMAIN s |-> IF s[i] = "U+00C9" THEN "U+00E9" ELSE LowerChar(s[i])]

OnlySpaces(t) == \A i \in DOMAIN t : t[i] \in {" ", "\t", "\n"}

RECURSIVE SumPct(_)
SumPct(R) ==
    IF R = {} THEN 0
    ELSE LET r == CHOOSE r \in R : TRUE IN r[3][1] + SumPct(R \ {r})

Within(a, b, tol) == a - b <= tol /\ b - a <= tol

\* C1: whatever the store lacks, no exception leaves run_sql: no run of the
\* script is cut short, and every statement that failed put an error message
\* on the page and handed back the empty frame.
C1_NoExceptionEscapes ==
    /\ ~crashed
    /\ ReachedEnd
    /\ \A e \in Log :
          Fails(db, e.q) => Shown(e.sec, "error") /\ e.df = EmptyFrame /\ ~ShowsData(e.sec)

\* A single-query run whose statement failed on a missing column.
C1_Witness ==
    /\ selection.view = "single"
    /\ db.food_listings.exists
    /\ \E e \in Log : Fails(db, e.q)

\* C2: an error is on the page exactly for the statements that failed; a
\* statement that ran and found no row hands back a frame with its columns
\* and no row, with no error, which show_df_and_chart renders as the
\* no-results line.
C2_EmptyIsNotFailure ==
    /\ \A e \in Log :
          /\ Shown(e.sec, "error") <=> Fails(db, e.q)
          /\ Fails(db, e.q) => e.df.ncols = 0
          /\ (~Fails(db, e.q) /\ ResultOf(db, e.q, e.param).nrows = 0) =>
                /\ e.df.nrows = 0 /\ e.df.ncols > 0
                /\ ~Shown(e.sec, "error")
                /\ (selection.view = "all" /\ e.sec \in {6, 11}) \/ ShownText(e.sec, "info", NoResults)
    /\ \A i \in DOMAIN display :
          display[i].kind = "error" => \E e \in Log : e.sec = display[i].sec /\ Fails(db, e.q)

\* One run, after a city was typed, with a statement that failed and a
\* statement that found no row.
C2_Witness ==
    \E e, f \in Log :
        /\ cityText # <<>>
        /\ Fails(db, e.q)
        /\ ~Fails(db, f.q) /\ f.df.nrows = 0 /\ ShownText(f.sec, "info", NoResults)

\* C3 as amended: Query 11 never fails on an existing claims table; with no
\* claim it returns no row; with at least one claim and at most 20 rows (20
\* lower-cased statuses) its percentages add up to 100 within 0.1.
C3_PercentagesSumUpTo20 ==
    \A e \in Log : e.q = 11 =>
        /\ ~crashed /\ ~Shown(e.sec, "error")
        /\ db.claims.rows = {} => e.df.nrows = 0
        /\ db.claims.rows # {} =>
              /\ e.df.nrows = Cardinality({Lower(c.Status) : c \in db.claims.rows})
              /\ e.df.nrows <= 20 => Within(SumPct(e.df.rows), 10000, 10)

\* Query 11 was run from its own view on three claims of three statuses:
\* 33.33 three times.
C3_Witness ==
    \E e \in Log :
        /\ selection.view = "single" /\ pressed
        /\ e.q = 11 /\ e.df.nrows = 3
        /\ Cardinality(db.claims.rows) = 3
        /\ SumPct(e.df.rows) = 9999

\* C3 as stated: the percentages add up to 100 within 0.1 whatever the number
\* of statuses.
C3_PercentagesSumAlways ==
    \A e \in Log : (e.q = 11 /\ db.claims.rows # {}) =>
        Within(SumPct(e.df.rows), 10000, 10)

\* C4 as stated: claims whose statuses differ only in letter case are counted
\* in one row of Query 11: one row per status up to case, with the number of
\* its claims; and Completed, completed, Pending give two rows, 2 (66.67) and
\* 1 (33.33).
C4_StatusGroupsIgnoreCase ==
    \A e \in Log : (e.q = 11 /\ ~Fails(db, 11)) =>
        /\ e.df.nrows = Cardinality({Fold(c.Status) : c \in db.claims.rows})
        /\ \A r \in e.df.rows :
              r[2] = Cardinality({c \in db.claims.rows : Fold(c.Status) = Fold(r[1])})
        /\ {c.Status : c \in db.claims.rows} = {StCompleted, StCompletedLc, StPending} =>
              {<<Fold(r[1]), r[2], r[3]>> : r \in e.df.rows}
                 = {<<Fold(StCompleted), 2, <<6667>>>>, <<Fold(StPending), 1, <<3333>>>>}

\* Query 11 was run from its own view on the claims Completed, completed,
\* Pending and shows two rows.
C4_Witness ==
    \E e \in Log :
        /\ selection.view = "single" /\ pressed
        /\ e.q = 11
        /\ {c.Status : c \in db.claims.rows} = {StCompleted, StCompletedLc, StPending}
        /\ {<<r[2], r[3]>> : r \in e.df.rows} = {<<2, <<6667>>>>, <<1, <<3333>>>>}

\* C5 as stated: the city query returns exactly the providers whose City
\* equals the parameter up to letter case, so that two parameters that differ
\* only in case give the same table.
C5_CityMatchIgnoresCase ==
    \A e \in Log : (e.q = CityQuery /\ ~Fails(db, CityQuery)) =>
        /\ e.df.rows =
              { <<p.Provider_ID, p.Name, p.Address, p.City, p.Contact>> :
                  p \in {p \in db.providers.rows : Fold(p.City) = Fold(e.param)} }
        /\ \A t \in CityInputs :
              Fold(Strip(t)) = Fold(e.param) => Query4Rows(db, Strip(t)) = e.df.rows

\* The city query ran for "jaipur" and returned the provider of Jaipur.
C5_Witness ==
    \E e \in Log :
        /\ e.q = CityQuery /\ e.param = Lower(CityJaipur)
        /\ \E r \in e.df.rows : r[4] = CityJaipur

\* C6 as stated: on an empty food_listings table Query 6 shows, in every view
\* that runs it, one value and that value is 0, with no error.
C6_TotalIsZeroWhenEmpty ==
    (db.food_listings.exists /\ "Quantity" \in db.food_listings.cols
        /\ db.food_listings.rows = {}) =>
    \A e \in Log : e.q = 6 =>
        /\ ~Shown(e.sec, "error")
        /\ \E i \in DOMAIN display :
              /\ display[i].sec = e.sec
              /\ \/ display[i].kind = "metric" /\ display[i].val = <<0>>
                 \/ display[i].kind = "dataframe" /\ display[i].df.rows = {<< <<0>> >>}

\* The all-queries view, back from another view, shows the metric 0 on an
\* empty food_listings table.
C6_Witness ==
    /\ selection.view = "all" /\ cityText # <<>>
    /\ db.food_listings.exists /\ db.food_listings.rows = {}
    /\ \E i \in DOMAIN display : display[i].kind = "metric" /\ display[i].val = <<0>>

\* C8: the city query is executed exactly when the trimmed city is not empty
\* (and, in the interactive view, Run was pressed), with the trimmed city as
\* its parameter; a blank city in the all-queries view, or a blank city and a
\* press of Run in the interactive view, shows the prompt to type a city.
C8_BlankCityIsCaught ==
    LET ran == \E e \in Log : e.q = CityQuery
    IN  /\ selection.view = "all" =>
              /\ ran <=> ~OnlySpaces(cityText)
              /\ OnlySpaces(cityText) => ShownText(CityQuery, "info", TypeACity)
        /\ selection.view = "city" =>
              /\ ran <=> (pressed /\ ~OnlySpaces(cityText))
              /\ (pressed /\ OnlySpaces(cityText)) => ShownText(CityQuery, "warning", PleaseType)
        /\ selection.view = "single" => ~ran
        /\ \A e \in Log : e.q = CityQuery =>
              /\ e.param # <<>>
              /\ ~OnlySpaces(e.param)
              /\ \E a, b \in 0..Len(cityText) :
                    cityText = [i \in 1..a |-> " "] \o e.param \o [i \in 1..b |-> " "]

\* Run was pressed in the interactive view on a city of one space.
C8_Witness ==
    /\ selection.view = "city" /\ pressed /\ cityText = <<" ">>
    /\ ShownText(CityQuery, "warning", PleaseType)

\* C9: no UI event changes the four tables.
C9_TablesUnchanged == [][db' = db]_vars

\* Run was pressed in a single-query view over the filled store.
C9_Witness ==
    /\ db = BaseStore
    /\ selection.view = "single" /\ pressed
    /\ executed # <<>>

\* C10: a run of the all-queries view goes through the sections 1 to 15 in
\* this order and reaches the end of the script; the statements it executes
\* are those of the sections in ascending order; a section whose statement
\* failed shows the error and neither table, number nor chart.
C10_AllSectionsInOrder ==
    selection.view = "all" =>
        LET heads == SelectSeq(display, LAMBDA it : it.kind = "subheader")
        IN  /\ Len(heads) = LastSection
            /\ \A n \in 1..LastSection : heads[n].sec = n
            /\ \A i, j \in DOMAIN display :
                  (i < j /\ display[i].sec > 0 /\ display[j].sec > 0)
                     => display[i].sec <= display[j].sec
            /\ \A i, j \in DOMAIN executed : i < j => executed[i].sec < executed[j].sec
            /\ \A n \in Catalog : \E e \in Log : e.sec = n /\ e.q = n
            /\ \A e \in Log : Fails(db, e.q) => Shown(e.sec, "error") /\ ~ShowsData(e.sec)
            /\ ReachedEnd
            /\ ~crashed

\* The first statement of a run with a city failed and the last one shows
\* its table.
C10_Witness ==
    /\ selection.view = "all" /\ ~OnlySpaces(cityText)
    /\ Fails(db, 1) /\ Shown(1, "error")
    /\ Shown(LastSection, "dataframe")

====
